---- MODULE Spec2Model ----
(***************************************************************************)
(* Transaction state and aggregation engine of the bank statement tracker  *)
(* (statement_tracker.py): the two global transaction lists, the category  *)
(* dictionary, the persisted category and ignore files, the four summary   *)
(* mappings, and the handlers of the main window and of the ignore-list    *)
(* dialog that change them.                                                *)
(*                                                                         *)
(* Strings that the code takes apart (descriptions, store names, formatted *)
(* dates) are sequences of one-character or one-token strings; a datetime  *)
(* is a record [year, month, day]; a Python tuple is a TLA+ tuple; an      *)
(* insertion-ordered dict keyed by store is a sequence of <<key, value>>   *)
(* pairs; a defaultdict keyed by month or category is a function.          *)
(***************************************************************************)
EXTENDS Integers, Sequences, FiniteSets, TLC

(***************************************************************************)
(* Bounds of the model.                                                    *)
(***************************************************************************)
\* transactions held in memory, active and ignored together
MaxTx == 2
\* files selected in one load of the import specification
MaxFiles == 2
\* rows of the files of one load of the import specification, all together
MaxRows == 2

(***************************************************************************)
(* Text helpers: str.strip, str.split, str.lower, str.startswith.          *)
(***************************************************************************)
RECURSIVE LStrip(_)
LStrip(s) == IF s # <<>> /\ Head(s) = " " THEN LStrip(Tail(s)) ELSE s

RECURSIVE RStrip(_)
RStrip(s) ==
  IF s # <<>> /\ s[Len(s)] = " " THEN RStrip(SubSeq(s, 1, Len(s) - 1)) ELSE s

Strip(s) == RStrip(LStrip(s))

RECURSIVE Split(_, _)
Split(s, sep) ==
  IF \A i \in 1..Len(s) : s[i] # sep
  THEN <<s>>
  ELSE LET k == CHOOSE i \in 1..Len(s) :
                  s[i] = sep /\ \A j \in 1..(i - 1) : s[j] # sep
       IN <<SubSeq(s, 1, k - 1)>> \o Split(SubSeq(s, k + 1, Len(s)), sep)

StartsWith(s, prefix) ==
  Len(prefix) <= Len(s) /\ SubSeq(s, 1, Len(prefix)) = prefix

\* str.lower on the category names of the model
Lower(c) == CASE c = "Food" -> "food"
              [] c = "Total" -> "total"
              [] c = "None" -> "none"
              [] OTHER -> c

(***************************************************************************)
(* Dates: datetime.strptime and datetime.strftime.                         *)
(***************************************************************************)
\* strptime(s, "%d %b %Y") on the Date column; other strings raise
DmyTable ==
  ("10 Jan 2023" :> [year |-> 2023, month |-> 1, day |-> 10]) @@
  ("15 Jan 2024" :> [year |-> 2024, month |-> 1, day |-> 15]) @@
  ("20 Feb 2024" :> [year |-> 2024, month |-> 2, day |-> 20])

ParsesDmy(s) == s \in DOMAIN DmyTable

StrptimeDmy(s) == DmyTable[s]

\* %Y, %m and %d of strftime
Fmt4 == (2023 :> "2023") @@ (2024 :> "2024")

Fmt2 == (1 :> "01") @@ (2 :> "02") @@ (10 :> "10") @@ (15 :> "15") @@ (20 :> "20")

\* date.strftime("%Y-%m-%d")
StrftimeYmd(date) ==
  <<Fmt4[date.year], "-", Fmt2[date.month], "-", Fmt2[date.day]>>

\* date.strftime("%Y-%m")
StrftimeYm(date) == <<Fmt4[date.year], "-", Fmt2[date.month]>>

\* datetime.strptime(date_str, "%Y-%m-%d")
StrptimeYmd(s) ==
  [year  |-> CHOOSE y \in DOMAIN Fmt4 : Fmt4[y] = s[1],
   month |-> CHOOSE m \in DOMAIN Fmt2 : Fmt2[m] = s[3],
   day   |-> CHOOSE d \in DOMAIN Fmt2 : Fmt2[d] = s[5]]

(***************************************************************************)
(* Amounts: float(row["Value"]).  Amounts are whole pounds.                *)
(***************************************************************************)
FloatTable == ("-2" :> -2) @@ ("0" :> 0) @@ ("1" :> 1)

ParsesFloat(s) == s \in DOMAIN FloatTable

Float(s) == FloatTable[s]

Abs(x) == IF x < 0 THEN 0 - x ELSE x

(***************************************************************************)
(* Insertion-ordered dict (self.categories).                               *)
(***************************************************************************)
DictHas(d, k) == \E i \in 1..Len(d) : d[i][1] = k

DictGet(d, k, default) ==
  IF DictHas(d, k)
  THEN d[CHOOSE i \in 1..Len(d) : d[i][1] = k][2]
  ELSE default

\* variant of the assignment that adds an item even when the key is present
DictAppend(d, k, v) == Append(d, <<k, v>>)

DictSet(d, k, v) ==
  IF DictHas(d, k)
  THEN [i \in 1..Len(d) |-> IF d[i][1] = k THEN <<k, v>> ELSE d[i]]
  ELSE Append(d, <<k, v>>)

(***************************************************************************)
(* defaultdict(float) and defaultdict(lambda: defaultdict(float)).         *)
(***************************************************************************)
EmptyDict == [k \in {} |-> 0]

AddTo(d, k, v) ==
  IF k \in DOMAIN d THEN [d EXCEPT ![k] = @ + v] ELSE d @@ (k :> v)

AddTo2(d, m, c, v) ==
  IF m \in DOMAIN d
  THEN [d EXCEPT ![m] = AddTo(@, c, v)]
  ELSE d @@ (m :> (c :> v))

(***************************************************************************)
(* CSV persistence.                                                        *)
(***************************************************************************)
\* a file is the sequence of its rows, a row the sequence of its fields
load_categories(file) ==
  LET RECURSIVE Load(_, _)
      Load(d, i) ==
        IF i > Len(file) THEN d
        ELSE IF Len(file[i]) >= 2
             THEN Load(DictSet(d, file[i][1], file[i][2]), i + 1)
             ELSE Load(d, i + 1)
  IN Load(<<>>, 1)

\* variant of the save that writes the first row only
save_categories_first(categories) ==
  [i \in 1..(IF categories = <<>> THEN 0 ELSE 1) |->
     <<categories[i][1], categories[i][2]>>]

save_categories(categories) ==
  [i \in 1..Len(categories) |-> <<categories[i][1], categories[i][2]>>]

load_ignore_list(file) ==
  LET RECURSIVE Load(_, _)
      Load(l, i) ==
        IF i > Len(file) THEN l
        ELSE IF Len(file[i]) >= 2
             THEN Load(Append(l, <<Strip(file[i][1]), Strip(file[i][2])>>), i + 1)
             ELSE Load(l, i + 1)
  IN Load(<<>>, 1)

\* variant of the save that writes the store before the date
save_ignore_list_store_first(ignore_list) ==
  [i \in 1..Len(ignore_list) |-> <<ignore_list[i][2], ignore_list[i][1]>>]

save_ignore_list(ignore_list) ==
  [i \in 1..Len(ignore_list) |-> <<ignore_list[i][1], ignore_list[i][2]>>]

\* x in list
In(x, list) == \E i \in 1..Len(list) : list[i] = x

\* variant of list.remove that removes every element equal to x
ListRemoveAll(list, x) == SelectSeq(list, LAMBDA y : y # x)

\* list.remove(x): the first element equal to x is removed
ListRemove(list, x) ==
  LET k == CHOOSE i \in 1..Len(list) :
             list[i] = x /\ \A j \in 1..(i - 1) : list[j] # x
  IN SubSeq(list, 1, k - 1) \o SubSeq(list, k + 1, Len(list))

(***************************************************************************)
(* extract_store_name                                                      *)
(***************************************************************************)
\* variant that returns the last comma-separated part
extract_store_name_last_part(description) ==
  LET parts == Split(description, ",")
  IN Strip(parts[Len(parts)])

extract_store_name(description) ==
  LET parts == Split(description, ",")
  IN IF Len(parts) >= 2 THEN Strip(parts[2]) ELSE Strip(description)

(***************************************************************************)
(* generate_summary: one pass over the active transactions.                *)
(***************************************************************************)
EmptySummary ==
  [summary_spending |-> EmptyDict, summary_income |-> EmptyDict,
   monthly_totals_spending |-> EmptyDict, monthly_totals_income |-> EmptyDict]

\* variant of the loop body that books an amount of 0 as income
SummaryStepZeroAsIncome(acc, t) ==
  LET month == StrftimeYm(t[1])
      amount == t[3]
      category == t[4]
  IN IF amount < 0
     THEN [acc EXCEPT
             !.summary_spending = AddTo2(@, month, category, Abs(amount)),
             !.monthly_totals_spending = AddTo(@, month, Abs(amount))]
     ELSE [acc EXCEPT
             !.summary_income = AddTo2(@, month, category, amount),
             !.monthly_totals_income = AddTo(@, month, amount)]

SummaryStep(acc, t) ==
  LET month == StrftimeYm(t[1])
      amount == t[3]
      category == t[4]
  IN IF amount < 0
     THEN [acc EXCEPT
             !.summary_spending = AddTo2(@, month, category, Abs(amount)),
             !.monthly_totals_spending = AddTo(@, month, Abs(amount))]
     ELSE IF amount > 0
     THEN [acc EXCEPT
             !.summary_income = AddTo2(@, month, category, amount),
             !.monthly_totals_income = AddTo(@, month, amount)]
     ELSE acc

RECURSIVE SummaryFrom(_, _, _)
SummaryFrom(acc, txs, i) ==
  IF i > Len(txs) THEN acc ELSE SummaryFrom(SummaryStep(acc, txs[i]), txs, i + 1)

generate_summary(txs) == SummaryFrom(EmptySummary, txs, 1)

(***************************************************************************)
(* The detail frames of the analysis tab.                                  *)
(***************************************************************************)
\* for cat, amt in breakdown.items(): acc[cat] += amt
AddBreakdown(acc, breakdown) ==
  [cat \in DOMAIN acc \cup DOMAIN breakdown |->
     (IF cat \in DOMAIN acc THEN acc[cat] ELSE 0)
     + (IF cat \in DOMAIN breakdown THEN breakdown[cat] ELSE 0)]

\* for month, breakdown in by_month.items(): if month in months: the loop
\* above
RECURSIVE AddBreakdowns(_, _, _)
AddBreakdowns(acc, by_month, months) ==
  IF months = {} THEN acc
  ELSE LET month == CHOOSE m \in months : TRUE
       IN AddBreakdowns(AddBreakdown(acc, by_month[month]), by_month,
                        months \ {month})

\* sum(totals.get(m, 0) for m in months)
RECURSIVE SumOfMonths(_, _)
SumOfMonths(totals, months) ==
  IF months = {} THEN 0
  ELSE LET month == CHOOSE m \in months : TRUE
       IN totals[month] + SumOfMonths(totals, months \ {month})

\* what show_total_details puts into the three frames
show_total_details(s) ==
  [period |-> "Total",
   income |-> AddBreakdowns(EmptyDict, s.summary_income, DOMAIN s.summary_income),
   spending |-> AddBreakdowns(EmptyDict, s.summary_spending, DOMAIN s.summary_spending),
   total_income |-> SumOfMonths(s.monthly_totals_income, DOMAIN s.monthly_totals_income),
   total_spending |->
     SumOfMonths(s.monthly_totals_spending, DOMAIN s.monthly_totals_spending)]

\* variant of show_yearly_details without the test month.startswith(year)
show_yearly_details_every_month(s, year) ==
  [show_total_details(s) EXCEPT !.period = year]

\* what show_yearly_details(year) puts into the three frames
show_yearly_details(s, year) ==
  LET OfYear(by_month) == {month \in DOMAIN by_month : StartsWith(month, <<year>>)}
  IN [period |-> year,
      income |-> AddBreakdowns(EmptyDict, s.summary_income, OfYear(s.summary_income)),
      spending |->
        AddBreakdowns(EmptyDict, s.summary_spending, OfYear(s.summary_spending)),
      total_income |->
        SumOfMonths(s.monthly_totals_income, OfYear(s.monthly_totals_income)),
      total_spending |->
        SumOfMonths(s.monthly_totals_spending, OfYear(s.monthly_totals_spending))]

\* all_months of perform_analysis
AllMonths(s) == DOMAIN s.monthly_totals_income \cup DOMAIN s.monthly_totals_spending

(***************************************************************************)
(* Inputs: the CSV files a load may select.                                *)
(***************************************************************************)
\* "p, a " names store a, "b" names store b
DescA == <<"p", ",", " ", "a", " ">>

DescB == <<"b">>

GoodRows ==
  {<<"15 Jan 2024", DescA, "-2">>, <<"15 Jan 2024", DescA, "0">>,
   <<"20 Feb 2024", DescB, "1">>, <<"15 Jan 2024", DescB, "-2">>}

\* a file that cannot be opened or decoded
Unreadable == <<<<"unreadable">>>>

\* the loads of the main specification: no file, or one file of at most one
\* good row (a longer file or a longer selection leaves the lists as the
\* same rows loaded one after the other do)
LoadInputs == {<<>>, <<<<>>>>} \cup {<<<<row>>>> : row \in GoodRows}

\* the loads of the category specifications: no file, or one file of one row
\* of store a or of store b (the category handlers read no amount)
StatementInputs ==
  {<<>>, <<<<<<"15 Jan 2024", DescA, "-2">>>>>>, <<<<<<"20 Feb 2024", DescB, "1">>>>>>}

\* rows of the import specification: one routed by the initial ignore file,
\* one not, a bad date, a bad value for a store not seen before, a row cut
\* short after its first field
ImportRowPool ==
  {<<"15 Jan 2024", DescA, "-2">>, <<"20 Feb 2024", DescB, "1">>,
   <<"2024-01-15", DescB, "1">>, <<"15 Jan 2024", <<"c">>, "n/a">>,
   <<"15 Jan 2024">>}

SeqsUpTo(S, n) == UNION {[1..k -> S] : k \in 0..n}

\* selections of at most n files that hold at most r rows all together
RECURSIVE Selections(_, _)
Selections(n, r) ==
  IF n = 0 THEN {<<>>}
  ELSE {<<>>} \cup
       UNION {{<<file>> \o rest : rest \in Selections(n - 1, r - Len(file))} :
                file \in SeqsUpTo(ImportRowPool, r)} \cup
       {<<Unreadable>> \o rest : rest \in Selections(n - 1, r)}

\* the loads of the import specification
ImportInputs == Selections(MaxFiles, MaxRows)

(***************************************************************************)
(* State.                                                                  *)
(***************************************************************************)
VARIABLES
  transactions,            \* global transactions: the active partition
  ignored_transactions,    \* global ignored_transactions
  categories,              \* self.categories
  categories_file,         \* contents of categories.csv
  ignore_file,             \* contents of ignore.csv
  summary,                 \* self.summary_spending, self.summary_income,
                           \* self.monthly_totals_spending, self.monthly_totals_income
  correction_tree,         \* rows of self.correction_tree, by item id
  categories_tree,         \* categories listed in self.categories_tree
  dialog,                  \* the IgnoreListDialog window
  ignore_list,             \* the dialog's self.ignore_list
  avail_tree,              \* (date, store) of the rows of the dialog's avail_tree
  ignore_tree,             \* (date, store) of the rows of the dialog's ignore_tree
  ignore_time_var,         \* the dialog's time-period filter
  last,                    \* the handler that ran last or is running: its
                           \* name, its input, and where it waits or the
                           \* way it ended
  before,                  \* the pair and the two lists as the most recent
                           \* add_selectedd found them, while only handlers
                           \* of the dialog window have run since
  writable,                \* categories.csv and ignore.csv can be opened for
                           \* writing
  analyze_button,          \* self.analyze_button is enabled
  month_buttons,           \* the months that create_month_buttons was given:
                           \* one button for each, one for each of their
                           \* years, and the Total button
  settings_file,           \* settings.csv: whether it exists, and its rows
  settings,                \* the settings dictionary of config.py
  displayed                \* history: what the latest handler put into the
                           \* net, income and spending frames of the
                           \* analysis tab, NoDetails when it put nothing

vars == <<transactions, ignored_transactions, categories, categories_file,
          ignore_file, summary, correction_tree, categories_tree, dialog,
          ignore_list, avail_tree, ignore_tree, ignore_time_var, last, before,
          writable, analyze_button, month_buttons, settings_file, settings,
          displayed>>

analysisVars == <<analyze_button, month_buttons>>

settingsVars == <<settings_file, settings>>

\* writer.writerow(["Setting", "Value"])
SettingsHeader == <<"Setting", "Value">>

\* the settings dictionary as config.py binds it, two of its keys
DefaultSettings == ("Theme" :> "Light") @@ ("FontSize" :> "10")

\* nothing was put into the three detail frames
NoDetails ==
  [period |-> "", income |-> EmptyDict, spending |-> EmptyDict,
   total_income |-> 0, total_spending |-> 0]

dialogVars == <<dialog, ignore_list, avail_tree, ignore_tree, ignore_time_var>>

\* no add_selectedd is remembered
NoAdd == [arg |-> <<>>, transactions |-> <<>>, ignored_transactions |-> <<>>]

\* ignore.csv as an earlier session left it: empty, or naming 2024-01-15 at a
InitIgnoreFiles ==
  {<<>>, <<<<<<"2024", "-", "01", "-", "15">>, <<"a">>>>>>}

\* categories.csv as an earlier session left it: store a is food
InitCategoryFiles == {<<<<<<"a">>, "food">>>>}

\* __init__ binds the four aggregate mappings to empty dicts
Init ==
  /\ ignore_file \in InitIgnoreFiles
  /\ categories_file \in InitCategoryFiles
  /\ categories = load_categories(categories_file)
  /\ transactions = <<>>
  /\ ignored_transactions = <<>>
  /\ summary = EmptySummary
  /\ correction_tree = <<>>
  /\ categories_tree = {}
  /\ dialog = "closed"
  /\ ignore_list = <<>>
  /\ avail_tree = {}
  /\ ignore_tree = {}
  /\ ignore_time_var = <<>>
  /\ last = [op |-> "init", arg |-> <<>>, exit |-> ""]
  /\ before = NoAdd
  /\ writable = TRUE
  /\ analyze_button = FALSE
  /\ month_buttons = {}
  /\ settings_file = [exists |-> TRUE, rows |-> <<SettingsHeader>>]
  /\ settings = DefaultSettings
  /\ displayed = NoDetails

\* rows that categories.csv may hold: a store twice, a store with blanks
\* around it, a row of one field and a row of three
CategoryRows ==
  {<<<<"a">>, "food">>, <<<<"a">>, "Food">>, <<<<"b">>, "food">>,
   <<<<" ", "a">>, "food">>, <<<<"a">>>>, <<<<"b">>, "bills", "x">>}

\* rows that ignore.csv may hold: a pair twice, fields with blanks around
\* them, a row of one field and a row of three
IgnoreRows ==
  {<<<<"2024", "-", "01", "-", "15">>, <<"a">>>>,
   <<<<"2024", "-", "01", "-", "15">>, <<" ", "a", " ">>>>,
   <<<<" ", "2024", "-", "02", "-", "20">>, <<"b">>>>,
   <<<<"2024", "-", "02", "-", "20">>>>,
   <<<<"2024", "-", "02", "-", "20">>, <<"b">>, <<"x">>>>}

\* rows that settings.csv may hold: the header, the two settings, a key that
\* is no setting, a row of one field and a row of three
SettingRows ==
  {SettingsHeader, <<"Theme", "Dark">>, <<"FontSize", "12">>, <<"Colour", "red">>,
   <<"Theme">>, <<"FontSize", "14", "x">>}

\* settings.csv is missing, or holds at most MaxRows + 1 rows
SettingsFiles ==
  {[exists |-> FALSE, rows |-> <<>>]} \cup
  {[exists |-> TRUE, rows |-> rows] : rows \in SeqsUpTo(SettingRows, MaxRows + 1)}

\* __init__ has reached its call of load_settings, on any settings.csv
InitStart ==
  /\ ignore_file \in InitIgnoreFiles
  /\ categories_file \in InitCategoryFiles
  /\ categories = load_categories(categories_file)
  /\ transactions = <<>>
  /\ ignored_transactions = <<>>
  /\ summary = EmptySummary
  /\ correction_tree = <<>>
  /\ categories_tree = {}
  /\ dialog = "closed"
  /\ ignore_list = <<>>
  /\ avail_tree = {}
  /\ ignore_tree = {}
  /\ ignore_time_var = <<>>
  /\ last = [op |-> "__init__", arg |-> <<>>, exit |-> "load_settings"]
  /\ before = NoAdd
  /\ writable = TRUE
  /\ analyze_button = FALSE
  /\ month_buttons = {}
  /\ settings_file \in SettingsFiles
  /\ settings = DefaultSettings
  /\ displayed = NoDetails

\* the application starts on files that anything may have written
InitAnyFiles ==
  /\ ignore_file \in SeqsUpTo(IgnoreRows, MaxRows)
  /\ categories_file \in SeqsUpTo(CategoryRows, MaxRows)
  /\ categories = load_categories(categories_file)
  /\ transactions = <<>>
  /\ ignored_transactions = <<>>
  /\ summary = EmptySummary
  /\ correction_tree = <<>>
  /\ categories_tree = {}
  /\ dialog = "closed"
  /\ ignore_list = <<>>
  /\ avail_tree = {}
  /\ ignore_tree = {}
  /\ ignore_time_var = <<>>
  /\ last = [op |-> "init", arg |-> <<>>, exit |-> ""]
  /\ before = NoAdd
  /\ writable = TRUE
  /\ analyze_button = FALSE
  /\ month_buttons = {}
  /\ settings_file = [exists |-> TRUE, rows |-> <<SettingsHeader>>]
  /\ settings = DefaultSettings
  /\ displayed = NoDetails

(***************************************************************************)
(* populate_correction_tab (period "Total", no search text) and            *)
(* populate_categories_tab                                                 *)
(***************************************************************************)
populate_correction_tab(txs) == txs

populate_categories_tab(txs) == {txs[i][4] : i \in 1..Len(txs)}

(***************************************************************************)
(* load_csv                                                                *)
(***************************************************************************)
\* load_csv waits in filedialog.askopenfilenames, which blocks the windows
\* of the application
Asking == last.exit = "askopenfilenames"

\* the Load button: load_csv up to the file dialog
load_csv_ask ==
  /\ dialog # "open"
  /\ ~Asking
  /\ last' = [op |-> "load_csv", arg |-> <<>>, exit |-> "askopenfilenames"]
  /\ before' = NoAdd
  /\ UNCHANGED <<writable, settingsVars, analysisVars>>
  /\ displayed' = NoDetails
  /\ UNCHANGED <<transactions, ignored_transactions, categories, categories_file,
                 ignore_file, summary, correction_tree, categories_tree,
                 dialog, ignore_list, avail_tree, ignore_tree, ignore_time_var>>

\* variant of the loop body that appends every transaction to the active list
ImportRowUnrouted(acc, row, registry) ==
  IF ~ParsesDmy(row[1]) THEN acc
  ELSE IF Len(row) < 2 THEN [acc EXCEPT !.raised = TRUE]
  ELSE
    LET date == StrptimeDmy(row[1])
        store == extract_store_name(row[2])
    IN IF Len(row) < 3 \/ ~ParsesFloat(row[3]) THEN acc
       ELSE
         LET amount == Float(row[3])
             category == DictGet(acc.categories, store, "None")
             known == DictHas(acc.categories, store)
             cats == IF known THEN acc.categories
                     ELSE DictSet(acc.categories, store, category)
             file == IF known THEN acc.categories_file ELSE save_categories(cats)
             t == <<date, store, amount, category>>
         IN [acc EXCEPT !.categories = cats, !.categories_file = file,
                        !.active = Append(@, t)]

\* one row of the inner loop; acc.raised ends the file.  save_categories
\* raises when the file cannot be opened for writing, after the store has
\* been entered in self.categories and before the transaction is appended.
ImportRow(acc, row, registry) ==
  IF ~ParsesDmy(row[1]) THEN acc
  ELSE IF Len(row) < 2 THEN [acc EXCEPT !.raised = TRUE]
  ELSE
    LET date == StrptimeDmy(row[1])
        store == extract_store_name(row[2])
    IN IF Len(row) < 3 \/ ~ParsesFloat(row[3]) THEN acc
       ELSE
         LET amount == Float(row[3])
             category == DictGet(acc.categories, store, "None")
             known == DictHas(acc.categories, store)
             cats == IF known THEN acc.categories
                     ELSE DictSet(acc.categories, store, category)
             file == IF known THEN acc.categories_file ELSE save_categories(cats)
             t == <<date, store, amount, category>>
         IN IF ~known /\ ~acc.writable
            THEN [acc EXCEPT !.categories = cats, !.raised = TRUE]
            ELSE IF In(<<StrftimeYmd(date), store>>, registry)
            THEN [acc EXCEPT !.categories = cats, !.categories_file = file,
                             !.ignored = Append(@, t)]
            ELSE [acc EXCEPT !.categories = cats, !.categories_file = file,
                             !.active = Append(@, t)]

\* variant of the inner loop that takes the rows from the last to the first
RECURSIVE ImportRowsReversed(_, _, _, _)
ImportRowsReversed(acc, rows, i, registry) ==
  IF i > Len(rows) \/ acc.raised THEN acc
  ELSE ImportRowsReversed(ImportRow(acc, rows[Len(rows) + 1 - i], registry),
                          rows, i + 1, registry)

\* variant of the inner loop that a date or a value that does not parse ends
RECURSIVE ImportRowsUntilBad(_, _, _, _)
ImportRowsUntilBad(acc, rows, i, registry) ==
  IF i > Len(rows) \/ acc.raised THEN acc
  ELSE IF ~ParsesDmy(rows[i][1]) \/ (Len(rows[i]) >= 3 /\ ~ParsesFloat(rows[i][3]))
       THEN acc
       ELSE ImportRowsUntilBad(ImportRow(acc, rows[i], registry), rows, i + 1, registry)

RECURSIVE ImportRows(_, _, _, _)
ImportRows(acc, rows, i, registry) ==
  IF i > Len(rows) \/ acc.raised THEN acc
  ELSE ImportRows(ImportRow(acc, rows[i], registry), rows, i + 1, registry)

\* variant of the outer loop body that drops what a failing file imported
ImportFileRollback(acc, file, registry) ==
  IF file = Unreadable \/ ImportRows(acc, file, 1, registry).raised THEN acc
  ELSE ImportRows(acc, file, 1, registry)

\* one file of the outer loop: an exception abandons the rest of the file
ImportFile(acc, file, registry) ==
  IF file = Unreadable THEN acc
  ELSE [ImportRows(acc, file, 1, registry) EXCEPT !.raised = FALSE]

\* variant of the outer loop that the first file that fails ends
RECURSIVE ImportFilesUntilFailure(_, _, _, _)
ImportFilesUntilFailure(acc, files, i, registry) ==
  IF i > Len(files) THEN acc
  ELSE IF files[i] = Unreadable \/ ImportRows(acc, files[i], 1, registry).raised
       THEN ImportFile(acc, files[i], registry)
       ELSE ImportFilesUntilFailure(ImportFile(acc, files[i], registry), files,
                                    i + 1, registry)

RECURSIVE ImportFiles(_, _, _, _)
ImportFiles(acc, files, i, registry) ==
  IF i > Len(files) THEN acc
  ELSE ImportFiles(ImportFile(acc, files[i], registry), files, i + 1, registry)

\* load_csv from the return of the file dialog; no file is selected when the
\* user cancels it
load_csv(files, replace_data) ==
  LET start == [active |-> IF replace_data THEN <<>> ELSE transactions,
                ignored |-> ignored_transactions,
                categories |-> categories,
                categories_file |-> categories_file,
                writable |-> writable,
                raised |-> FALSE]
      registry == load_ignore_list(ignore_file)
      ended(exit) ==
        last' = [op |-> "load_csv", arg |-> <<files, replace_data>>, exit |-> exit]
  IN /\ replace_data => files # <<>> /\ transactions # <<>>
     /\ IF files = <<>>
        THEN /\ ended("no files")
             /\ UNCHANGED <<transactions, ignored_transactions, categories,
                            categories_file, summary, correction_tree,
                            categories_tree, analyze_button>>
        ELSE \E end \in {ImportFiles(start, files, 1, registry)} :
               /\ Len(end.active) + Len(end.ignored) <= MaxTx
               /\ transactions' = end.active
               /\ ignored_transactions' = end.ignored
               /\ categories' = end.categories
               /\ categories_file' = end.categories_file
               /\ IF end.active # <<>>
                  THEN /\ summary' = generate_summary(end.active)
                       /\ correction_tree' = populate_correction_tab(end.active)
                       /\ categories_tree' = populate_categories_tab(end.active)
                       /\ analyze_button' = TRUE
                       /\ ended("summary")
                  ELSE /\ UNCHANGED <<summary, correction_tree, categories_tree,
                                       analyze_button>>
                       /\ ended("no transactions")
     /\ before' = NoAdd
     /\ UNCHANGED <<writable, settingsVars, month_buttons>>
     /\ displayed' = NoDetails
     /\ UNCHANGED <<ignore_file, dialogVars>>

LoadCsv ==
  /\ Asking
  /\ \E files \in LoadInputs, replace_data \in BOOLEAN : load_csv(files, replace_data)

\* descriptions: empty, blank, without a comma, with one comma and with more,
\* with blanks around the parts, with an empty second part
Descriptions ==
  {<<>>, <<" ">>, <<"a">>, <<" ", "a", " ">>, <<"a", " ", "b">>, <<",">>,
   <<"p", ",">>, <<"p", ",", "a">>, <<"p", ",", " ", "a", " ">>,
   <<"p", ",", "a", ",", "x">>, <<"p", ",", " ", ",", "a">>,
   <<" ", "p", ",", "b", " ", ",", "x", ",", "a">>}

\* no file, or one file of one row with any of the descriptions
DescriptionInputs ==
  {<<>>} \cup {<<<<<<"15 Jan 2024", d, "-2">>>>>> : d \in Descriptions}

LoadDescriptions ==
  /\ Asking
  /\ \E files \in DescriptionInputs, replace_data \in BOOLEAN :
       load_csv(files, replace_data)

\* no file, an empty file, and statements of two years
DetailInputs ==
  {<<>>, <<<<>>>>,
   <<<<<<"10 Jan 2023", DescB, "-2">>>>>>,
   <<<<<<"10 Jan 2023", DescA, "1">>>>>>,
   <<<<<<"15 Jan 2024", DescB, "1">>>>>>,
   <<<<<<"20 Feb 2024", DescA, "-2">>>>>>}

LoadYears ==
  /\ Asking
  /\ \E files \in DetailInputs, replace_data \in BOOLEAN :
       load_csv(files, replace_data)

LoadStatement ==
  /\ Asking
  /\ \E files \in StatementInputs, replace_data \in BOOLEAN :
       load_csv(files, replace_data)

ImportCsv ==
  /\ Asking
  /\ \E files \in ImportInputs, replace_data \in BOOLEAN : load_csv(files, replace_data)

(***************************************************************************)
(* The ignore-list dialog (IgnoreListDialog)                               *)
(***************************************************************************)
\* (date_str, store) as a row of either tree shows a transaction
RowOf(t) == <<StrftimeYmd(t[1]), t[2]>>

\* the text of the time-period filter: var.get().lower().strip()
TimeFilter(var) == [i \in 1..Len(Strip(var)) |-> Lower(Strip(var)[i])]

filter_available(txs, il, var) ==
  LET time_filter == TimeFilter(var)
  IN {RowOf(txs[i]) : i \in
        {j \in 1..Len(txs) :
           /\ ~In(RowOf(txs[j]), il)
           /\ ~(/\ time_filter # <<>>
                /\ time_filter # <<"total">>
                /\ ~StartsWith(RowOf(txs[j])[1], time_filter))}}

\* income and outgoing are bound by the first ignored transaction that is in
\* the ignore list with a non-zero amount; the append after the if reads
\* them for every ignored transaction
PopulateIgnoreRaises(igs, il) ==
  \E i \in 1..Len(igs) :
    ~\E j \in 1..i : In(RowOf(igs[j]), il) /\ igs[j][3] # 0

populate_ignore(txs, igs, il, file, var) ==
  LET time_filter == TimeFilter(var)
      reloaded == load_ignore_list(file)
      listed == {RowOf(igs[i]) : i \in 1..Len(igs)}
      active_listed ==
        {RowOf(txs[i]) : i \in
           {j \in 1..Len(txs) :
              /\ In(RowOf(txs[j]), reloaded)
              /\ ~(time_filter # <<>> /\ ~StartsWith(RowOf(txs[j])[1], time_filter))}}
  IN IF PopulateIgnoreRaises(igs, il)
     THEN [raised |-> TRUE, ignore_list |-> il, rows |-> {}]
     ELSE [raised |-> FALSE, ignore_list |-> reloaded,
           rows |-> listed \cup active_listed]

\* perform_analysis from all_months on: without a month it returns, with one
\* it ends with create_month_buttons(all_months) and show_total_details()
Analysis(s) ==
  IF AllMonths(s) = {}
  THEN /\ UNCHANGED month_buttons
       /\ displayed' = NoDetails
  ELSE /\ month_buttons' = AllMonths(s)
       /\ displayed' = show_total_details(s)

\* refresh_all_pages
RefreshAllPages ==
  /\ categories_tree' = populate_categories_tab(transactions')
  /\ summary' = generate_summary(transactions')
  /\ Analysis(summary')
  /\ correction_tree' = populate_correction_tab(transactions')

\* manage_ignore_list up to wait_window: IgnoreListDialog.__init__.  When
\* populate_ignore raises, the window is left half built: it has the
\* available tree, the Reset and the Add button, it is not modal, and
\* refresh_all_pages is not reached.
ManageIgnoreList ==
  LET il == load_ignore_list(ignore_file)
      avail == filter_available(transactions, il, <<>>)
      pi == populate_ignore(transactions, ignored_transactions, il, ignore_file, <<>>)
  IN /\ dialog = "closed"
     /\ ~Asking
     /\ ignore_list' = pi.ignore_list
     /\ ignore_tree' = pi.rows
     /\ IF pi.raised
        THEN /\ dialog' = "unfinished"
             /\ ignore_time_var' = <<>>
             /\ avail_tree' = avail
        ELSE /\ dialog' = "open"
             /\ ignore_time_var' = <<"Total">>
             /\ avail_tree' = filter_available(transactions, pi.ignore_list, <<"Total">>)
     /\ last' = [op |-> "manage_ignore_list", arg |-> <<>>,
                  exit |-> IF pi.raised THEN "raised" ELSE "open"]
     /\ UNCHANGED <<before, writable, settingsVars, analysisVars>>
     /\ displayed' = NoDetails
     /\ UNCHANGED <<transactions, ignored_transactions, categories, categories_file,
                    ignore_file, summary, correction_tree, categories_tree>>

\* variant of the search that stops at the last match instead of the first
LastMatch(txs, key) ==
  IF \E i \in 1..Len(txs) : <<txs[i][1], txs[i][2]>> = key
  THEN CHOOSE i \in 1..Len(txs) :
         /\ <<txs[i][1], txs[i][2]>> = key
         /\ \A j \in (i + 1)..Len(txs) : <<txs[j][1], txs[j][2]>> # key
  ELSE 0

\* index of the first transaction of txs whose date and store are key, or 0
FirstMatch(txs, key) ==
  IF \E i \in 1..Len(txs) : <<txs[i][1], txs[i][2]>> = key
  THEN CHOOSE i \in 1..Len(txs) :
         /\ <<txs[i][1], txs[i][2]>> = key
         /\ \A j \in 1..(i - 1) : <<txs[j][1], txs[j][2]>> # key
  ELSE 0

add_selectedd(values) ==
  LET date_str == values[1]
      store == values[2]
      date_obj == StrptimeYmd(date_str)
      listed == In(<<date_str, store>>, ignore_list)
      il == Append(ignore_list, <<date_str, store>>)
      k == FirstMatch(transactions, <<date_obj, store>>)
      txs == ListRemove(transactions, transactions[k])
      igs == Append(ignored_transactions, transactions[k])
      ended(exit) == last' = [op |-> "add_selectedd", arg |-> values, exit |-> exit]
  IN /\ dialog \in {"open", "unfinished"}
     /\ ~Asking
     /\ values \in avail_tree
     /\ before' = [arg |-> values, transactions |-> transactions,
                    ignored_transactions |-> ignored_transactions]
     /\ UNCHANGED <<writable, settingsVars, analysisVars>>
     /\ displayed' = NoDetails
     /\ IF listed
        THEN /\ ended("listed")
             /\ UNCHANGED <<transactions, ignored_transactions, ignore_file,
                            ignore_list, avail_tree, ignore_tree>>
        ELSE IF ~writable
        THEN /\ ignore_list' = il
             /\ ended("write failed")
             /\ UNCHANGED <<transactions, ignored_transactions, ignore_file,
                            avail_tree, ignore_tree>>
        ELSE /\ ignore_file' = save_ignore_list(il)
             /\ IF k = 0
                THEN /\ ignore_list' = il
                     /\ ended("no match")
                     /\ UNCHANGED <<transactions, ignored_transactions,
                                     avail_tree, ignore_tree>>
                ELSE /\ transactions' = txs
                     /\ ignored_transactions' = igs
                     /\ \E pi \in {populate_ignore(txs, igs, il, save_ignore_list(il),
                                                    ignore_time_var)} :
                          /\ ignore_list' = pi.ignore_list
                          /\ IF pi.raised
                             THEN /\ ended("raised")
                                  /\ UNCHANGED <<avail_tree, ignore_tree>>
                             ELSE /\ ended("moved")
                                  /\ ignore_tree' = pi.rows
                                  /\ avail_tree' = filter_available(
                                       txs, pi.ignore_list, ignore_time_var)
     /\ UNCHANGED <<categories, categories_file, summary, correction_tree,
                    categories_tree, dialog, ignore_time_var>>

AddSelected == \E values \in avail_tree : add_selectedd(values)

remove_selectedd(values) ==
  LET date_str == values[1]
      store == values[2]
      il == IF In(<<date_str, store>>, ignore_list)
            THEN ListRemove(ignore_list, <<date_str, store>>)
            ELSE ignore_list
      date_obj == StrptimeYmd(date_str)
      k == FirstMatch(ignored_transactions, <<date_obj, store>>)
      igs == IF k = 0 THEN ignored_transactions
             ELSE ListRemove(ignored_transactions, ignored_transactions[k])
      txs == IF k = 0 THEN transactions
             ELSE Append(transactions, ignored_transactions[k])
  IN /\ dialog = "open"
     /\ values \in ignore_tree
     /\ transactions' = txs
     /\ ignored_transactions' = igs
     /\ IF ~writable
        THEN /\ ignore_list' = il
             /\ last' = [op |-> "remove_selectedd", arg |-> values,
                          exit |-> "write failed"]
             /\ UNCHANGED <<ignore_file, avail_tree, ignore_tree>>
        ELSE /\ ignore_file' = save_ignore_list(il)
             /\ \E pi \in {populate_ignore(txs, igs, il, save_ignore_list(il),
                                            ignore_time_var)} :
                  /\ ignore_list' = pi.ignore_list
                  /\ IF pi.raised
                     THEN UNCHANGED <<avail_tree, ignore_tree>>
                     ELSE /\ ignore_tree' = pi.rows
                          /\ avail_tree' = filter_available(txs, pi.ignore_list,
                                                            ignore_time_var)
                  /\ last' = [op |-> "remove_selectedd", arg |-> values,
                               exit |-> IF k = 0
                                        THEN IF pi.raised THEN "no match, raised"
                                             ELSE "no match"
                                        ELSE IF pi.raised THEN "raised"
                                             ELSE "refreshed"]
     /\ before' = NoAdd
     /\ UNCHANGED <<writable, settingsVars, analysisVars>>
     /\ displayed' = NoDetails
     /\ UNCHANGED <<categories, categories_file, summary, correction_tree,
                    categories_tree, dialog, ignore_time_var>>

RemoveSelected == \E values \in ignore_tree : remove_selectedd(values)

\* the window and its attributes no longer exist
DialogGone ==
  /\ dialog' = "closed"
  /\ ignore_list' = <<>>
  /\ avail_tree' = {}
  /\ ignore_tree' = {}
  /\ ignore_time_var' = <<>>

\* Close: on_close destroys the window, wait_window returns and
\* manage_ignore_list ends with refresh_all_pages
on_close ==
  /\ dialog = "open"
  /\ UNCHANGED <<transactions, ignored_transactions>>
  /\ RefreshAllPages
  /\ DialogGone
  /\ last' = [op |-> "on_close", arg |-> <<>>, exit |-> "refreshed"]
  /\ UNCHANGED <<categories, categories_file, ignore_file, before, writable, settingsVars,
                 analyze_button>>

\* the half-built window is closed by the window manager: nothing waits for it
destroy_unfinished ==
  /\ dialog = "unfinished"
  /\ ~Asking
  /\ DialogGone
  /\ last' = [op |-> "destroy", arg |-> <<>>, exit |-> ""]
  /\ UNCHANGED <<before, writable, settingsVars, analysisVars>>
  /\ displayed' = NoDetails
  /\ UNCHANGED <<transactions, ignored_transactions, categories, categories_file,
                 ignore_file, summary, correction_tree, categories_tree>>

(***************************************************************************)
(* Category handlers of the main window                                    *)
(***************************************************************************)
\* what the user may type as a category
NewCategories == {"food", "Food", "bills"}

SetCategory(t, c) == <<t[1], t[2], t[3], c>>

\* variant of the loop that stops after the first transaction of the store
CorrectFirstOfStore(txs, store, new_cat) ==
  [i \in 1..Len(txs) |->
     IF txs[i][2] = store /\ \A j \in 1..(i - 1) : txs[j][2] # store
     THEN SetCategory(txs[i], new_cat)
     ELSE txs[i]]

\* update_all: the loop over every transaction of the store
CorrectStore(txs, store, new_cat) ==
  [i \in 1..Len(txs) |->
     IF txs[i][2] = store THEN SetCategory(txs[i], new_cat) ELSE txs[i]]

\* variant of the single update that takes every transaction of the store
\* of the one at index
CorrectStoreOfIndex(txs, index, new_cat) ==
  [i \in 1..Len(txs) |->
     IF txs[i][2] = txs[index][2] THEN SetCategory(txs[i], new_cat) ELSE txs[i]]

\* the single update: the transaction at index
CorrectIndex(txs, index, new_cat) ==
  [txs EXCEPT ![index] = SetCategory(@, new_cat)]

\* item is the position in correction_tree of the focused row (iid item - 1)
correct_transaction(item, new_cat, update_all) ==
  LET values == correction_tree[item]
      current_cat == values[4]
      store == values[2]
      all == CorrectStore(transactions, store, new_cat)
      raises == ~update_all /\ item > Len(transactions)
      one == CorrectIndex(transactions, item, new_cat)
  IN /\ dialog # "open"
     /\ ~Asking
     /\ item \in 1..Len(correction_tree)
     /\ new_cat # current_cat
     /\ IF raises
        THEN /\ UNCHANGED <<transactions, categories, summary, correction_tree,
                            categories_tree>>
             /\ displayed' = NoDetails
        ELSE /\ transactions' = IF update_all THEN all ELSE one
             /\ categories' = IF update_all THEN DictSet(categories, store, new_cat)
                               ELSE categories
             /\ correction_tree' = populate_correction_tab(transactions')
             /\ summary' = generate_summary(transactions')
             /\ categories_tree' = populate_categories_tab(transactions')
             /\ displayed' = show_total_details(summary')
     /\ last' = [op |-> "correct_transaction", arg |-> <<item, new_cat, update_all>>,
                  exit |-> IF raises THEN "raised" ELSE "refreshed"]
     /\ before' = NoAdd
     /\ UNCHANGED <<writable, settingsVars, analyze_button, month_buttons>>
     /\ UNCHANGED <<ignored_transactions, categories_file, ignore_file, dialogVars>>

CorrectTransaction ==
  \E item \in 1..Len(correction_tree), new_cat \in NewCategories,
     update_all \in BOOLEAN : correct_transaction(item, new_cat, update_all)

\* variant of the loop over the transactions that stops after the first match
RenameFirstTransaction(txs, old_cat, new_cat) ==
  [i \in 1..Len(txs) |->
     IF /\ Lower(txs[i][4]) = Lower(old_cat)
        /\ \A j \in 1..(i - 1) : Lower(txs[j][4]) # Lower(old_cat)
     THEN SetCategory(txs[i], new_cat)
     ELSE txs[i]]

\* the loop over the transactions
RenameTransactions(txs, old_cat, new_cat) ==
  [i \in 1..Len(txs) |->
     IF Lower(txs[i][4]) = Lower(old_cat)
     THEN SetCategory(txs[i], new_cat)
     ELSE txs[i]]

\* the loop over self.categories
RenameStores(cats, old_cat, new_cat) ==
  [i \in 1..Len(cats) |->
     IF Lower(cats[i][2]) = Lower(old_cat)
     THEN <<cats[i][1], new_cat>>
     ELSE cats[i]]

\* old_cat is the category of the focused row of categories_tree; the
\* handler ends in an AttributeError (populate_correction_periods), after
\* generate_summary and populate_categories_tab
edit_category(old_cat, new_cat) ==
  /\ dialog # "open"
  /\ ~Asking
  /\ old_cat \in categories_tree
  /\ new_cat # old_cat
  /\ transactions' = RenameTransactions(transactions, old_cat, new_cat)
  /\ categories' = RenameStores(categories, old_cat, new_cat)
  /\ summary' = generate_summary(transactions')
  /\ categories_tree' = populate_categories_tab(transactions')
  /\ last' = [op |-> "edit_category", arg |-> <<old_cat, new_cat>>,
               exit |-> "raised"]
  /\ before' = NoAdd
  /\ UNCHANGED <<writable, settingsVars, analysisVars>>
  /\ displayed' = NoDetails
  /\ UNCHANGED <<ignored_transactions, categories_file, ignore_file,
                 correction_tree, dialogVars>>

EditCategory ==
  \E old_cat \in categories_tree, new_cat \in NewCategories :
    edit_category(old_cat, new_cat)

\* variant of add_category that also gives the category to the active
\* transactions of the store
add_category_and_transactions(store, category) ==
  /\ dialog # "open"
  /\ ~Asking
  /\ categories' = DictSet(categories, store, category)
  /\ categories_file' = IF writable THEN save_categories(categories')
                         ELSE categories_file
  /\ transactions' = CorrectStore(transactions, store, category)
  /\ last' = [op |-> "add_category", arg |-> <<store, category>>,
               exit |-> IF writable THEN "" ELSE "write failed"]
  /\ before' = NoAdd
  /\ displayed' = NoDetails
  /\ UNCHANGED <<ignored_transactions, ignore_file, summary, correction_tree,
                 categories_tree, dialogVars, writable, settingsVars,
                 analysisVars>>

\* store and category are the texts of the two entry fields, both non-empty
add_category(store, category) ==
  /\ dialog # "open"
  /\ ~Asking
  /\ categories' = DictSet(categories, store, category)
  /\ categories_file' = IF writable THEN save_categories(categories')
                         ELSE categories_file
  /\ last' = [op |-> "add_category", arg |-> <<store, category>>,
               exit |-> IF writable THEN "" ELSE "write failed"]
  /\ before' = NoAdd
  /\ UNCHANGED <<writable, settingsVars, analysisVars>>
  /\ displayed' = NoDetails
  /\ UNCHANGED <<transactions, ignored_transactions, ignore_file, summary,
                 correction_tree, categories_tree, dialogVars>>

AddCategory ==
  \E store \in {<<"a">>, <<"b">>}, category \in {"food", "bills"} :
    add_category(store, category)

(***************************************************************************)
(* The analysis tab                                                        *)
(***************************************************************************)
\* the Analyze button
perform_analysis ==
  /\ analyze_button
  /\ dialog # "open"
  /\ ~Asking
  /\ Analysis(summary)
  /\ last' = [op |-> "perform_analysis", arg |-> <<>>,
              exit |-> IF AllMonths(summary) = {} THEN "no analysis" ELSE "details"]
  /\ before' = NoAdd
  /\ UNCHANGED <<transactions, ignored_transactions, categories, categories_file,
                 ignore_file, summary, correction_tree, categories_tree,
                 dialogVars, writable, settingsVars, analyze_button>>

\* unique_years of create_month_buttons: m.split("-")[0]
unique_years == {m[1] : m \in month_buttons}

\* a year button
ShowYearlyDetails ==
  /\ dialog # "open"
  /\ ~Asking
  /\ \E year \in unique_years :
       /\ displayed' = show_yearly_details(summary, year)
       /\ last' = [op |-> "show_yearly_details", arg |-> year, exit |-> "details"]
  /\ before' = NoAdd
  /\ UNCHANGED <<transactions, ignored_transactions, categories, categories_file,
                 ignore_file, summary, correction_tree, categories_tree,
                 dialogVars, writable, settingsVars, analyze_button, month_buttons>>

\* the Total button
ShowTotalDetails ==
  /\ dialog # "open"
  /\ ~Asking
  /\ month_buttons # {}
  /\ displayed' = show_total_details(summary)
  /\ last' = [op |-> "show_total_details", arg |-> <<>>, exit |-> "details"]
  /\ before' = NoAdd
  /\ UNCHANGED <<transactions, ignored_transactions, categories, categories_file,
                 ignore_file, summary, correction_tree, categories_tree,
                 dialogVars, writable, settingsVars, analyze_button, month_buttons>>

(***************************************************************************)
(* The file system                                                         *)
(***************************************************************************)
\* the two CSV files lose their write permission: open(..., 'w') raises from
\* then on
deny_writes ==
  /\ writable
  /\ writable' = FALSE
  /\ UNCHANGED <<transactions, ignored_transactions, categories, categories_file,
                 ignore_file, summary, correction_tree, categories_tree,
                 dialogVars, last, before, analysisVars, displayed,
                 settingsVars>>

(***************************************************************************)
(* Specifications.                                                         *)
(***************************************************************************)
\* loads and the ignore-list dialog
Next ==
  \/ load_csv_ask
  \/ LoadCsv
  \/ ManageIgnoreList
  \/ AddSelected
  \/ RemoveSelected
  \/ on_close
  \/ destroy_unfinished

Spec == Init /\ [][Next]_vars

\* loads of any selection of files, readable or not, with rows of any kind
NextImport ==
  \/ load_csv_ask
  \/ ImportCsv

SpecImport == Init /\ [][NextImport]_vars

\* loads and the category handlers of the main window
NextCategories ==
  \/ load_csv_ask
  \/ LoadStatement
  \/ CorrectTransaction
  \/ EditCategory

SpecCategories == Init /\ [][NextCategories]_vars

\* loads, corrections and the Add Category button
NextAssign ==
  \/ load_csv_ask
  \/ LoadStatement
  \/ CorrectTransaction
  \/ AddCategory

SpecAssign == Init /\ [][NextAssign]_vars

(***************************************************************************)
(* config.py                                                               *)
(***************************************************************************)
\* settings[key] = value
SetItem(d, key, value) ==
  [k \in DOMAIN d \cup {key} |-> IF k = key THEN value ELSE d[k]]

\* the loop of load_settings over the rows after the first
RECURSIVE ReadSettings(_, _, _)
ReadSettings(d, rows, i) ==
  IF i > Len(rows) THEN d
  ELSE IF Len(rows[i]) >= 2
       THEN ReadSettings(SetItem(d, rows[i][1], rows[i][2]), rows, i + 1)
       ELSE ReadSettings(d, rows, i + 1)

\* load_settings as __init__ calls it.  Without settings.csv it calls
\* save_settings(), which takes one argument: the call raises TypeError
\* before the file is opened, and __init__ ends with it.
load_settings ==
  /\ last.op = "__init__"
  /\ IF settings_file.exists
     THEN /\ settings' = ReadSettings(settings, settings_file.rows, 2)
          /\ last' = [op |-> "load_settings", arg |-> settings_file,
                      exit |-> "returned"]
     ELSE /\ settings' = settings
          /\ last' = [op |-> "load_settings", arg |-> settings_file,
                      exit |-> "raised"]
  /\ UNCHANGED <<transactions, ignored_transactions, categories, categories_file,
                 ignore_file, summary, correction_tree, categories_tree,
                 dialogVars, before, writable, analysisVars, displayed,
                 settings_file>>

\* the start of the application, on any settings.csv
NextStart == load_settings

SpecStart == InitStart /\ [][NextStart]_vars

\* save_categories(load_categories()): categories.csv is read and written
\* back
resave_categories ==
  /\ categories_file' = save_categories(load_categories(categories_file))
  /\ last' = [op |-> "save_categories", arg |-> categories_file, exit |-> ""]
  /\ UNCHANGED <<transactions, ignored_transactions, categories, ignore_file,
                 summary, correction_tree, categories_tree, dialogVars, before,
                 writable, settingsVars, analysisVars, displayed>>

\* save_ignore_list(load_ignore_list()): ignore.csv is read and written back
resave_ignore_list ==
  /\ ignore_file' = save_ignore_list(load_ignore_list(ignore_file))
  /\ last' = [op |-> "save_ignore_list", arg |-> ignore_file, exit |-> ""]
  /\ UNCHANGED <<transactions, ignored_transactions, categories, categories_file,
                 summary, correction_tree, categories_tree, dialogVars, before,
                 writable, settingsVars, analysisVars, displayed>>

\* loads of rows with any description
NextExtract ==
  \/ load_csv_ask
  \/ LoadDescriptions

SpecExtract == Init /\ [][NextExtract]_vars

\* the two files are read and written back, starting from any content
NextRoundTrip ==
  \/ resave_categories
  \/ resave_ignore_list

SpecRoundTrip == InitAnyFiles /\ [][NextRoundTrip]_vars

\* loads and the analysis tab
NextDetails ==
  \/ load_csv_ask
  \/ LoadYears
  \/ perform_analysis
  \/ ShowYearlyDetails
  \/ ShowTotalDetails

SpecDetails == Init /\ [][NextDetails]_vars

\* loads and the ignore-list dialog, with files that may become read-only
NextReadOnly ==
  \/ load_csv_ask
  \/ LoadCsv
  \/ ManageIgnoreList
  \/ AddSelected
  \/ RemoveSelected
  \/ on_close
  \/ destroy_unfinished
  \/ deny_writes

SpecReadOnly == Init /\ [][NextReadOnly]_vars

(***************************************************************************)
(* Properties.                                                             *)
(***************************************************************************)
\* the handler that ran last is h and has returned or raised
Ran(h) == last.op = h /\ last.exit \notin {"askopenfilenames", "no files"}

\* the ignore registry as persisted
Registry == load_ignore_list(ignore_file)

\* (date, store, amount) of a transaction
Instance(t) == <<t[1], t[2], t[3]>>

\* how many transactions of txs are the instance x
Count(txs, x) == Cardinality({i \in 1..Len(txs) : Instance(txs[i]) = x})

\* C1: a transaction is in the ignored partition if and only if its
\* (date formatted YYYY-MM-DD, store) pair is in the ignore registry, also
\* when several transactions share a pair
C1_PartitionFollowsRegistry ==
  /\ \A i \in 1..Len(ignored_transactions) :
       In(RowOf(ignored_transactions[i]), Registry)
  /\ \A i \in 1..Len(transactions) :
       ~In(RowOf(transactions[i]), Registry)

\* C2: a step of a handler other than load_csv leaves the number of
\* occurrences of every (date, store, amount) instance in active plus ignored
\* as it was: the moves of the dialog lose and duplicate nothing
C2_MovesKeepInstances ==
  [][last'.op # "load_csv" =>
       \A x \in {Instance(t) : t \in
                  {transactions[i] : i \in 1..Len(transactions)} \cup
                  {ignored_transactions[i] : i \in 1..Len(ignored_transactions)} \cup
                  {transactions'[i] : i \in 1..Len(transactions')} \cup
                  {ignored_transactions'[i] : i \in 1..Len(ignored_transactions')}} :
         Count(transactions', x) + Count(ignored_transactions', x)
           = Count(transactions, x) + Count(ignored_transactions, x)]_vars

\* add_selectedd has moved one of two transactions that are the same instance:
\* one is ignored, the other is still active
C2_Witness ==
  /\ Ran("add_selectedd")
  /\ \E i \in 1..Len(transactions), j \in 1..Len(ignored_transactions) :
       Instance(transactions[i]) = Instance(ignored_transactions[j])

\* C3: when load_csv or the closing of the ignore-list dialog has finished,
\* the four stored aggregates are those of a recomputation over the active
\* transactions, also when the load has left no active transaction
C3_AggregatesAreRecomputed ==
  (Ran("load_csv") \/ Ran("on_close")) => summary = generate_summary(transactions)

\* sum of amount(t) over the transactions t of txs with Keep(t)
SumOver(txs, Keep(_), amount(_)) ==
  LET RECURSIVE Sum(_)
      Sum(I) == IF I = {} THEN 0
                ELSE LET i == CHOOSE j \in I : TRUE
                     IN (IF Keep(txs[i]) THEN amount(txs[i]) ELSE 0) + Sum(I \ {i})
  IN Sum(1..Len(txs))

\* the keys of the active transactions with Keep
KeysOf(txs, Keep(_), key(_)) == {key(txs[i]) : i \in {j \in 1..Len(txs) : Keep(txs[j])}}

\* C4: right after generate_summary, for every month m and category c,
\* monthly_totals_income[m] is the sum of the amounts above 0 of month m,
\* monthly_totals_spending[m] the sum of the absolute amounts below 0,
\* summary_income[m][c] and summary_spending[m][c] the same sums over
\* category c, and a transaction of amount 0 adds to none of the four: the
\* mappings have no key but those of the amounts above and below 0
C4_SummaryIsSum ==
  ((Ran("load_csv") /\ transactions # <<>>) \/ Ran("on_close")) =>
    LET Month(t) == <<Fmt4[t[1].year], "-", Fmt2[t[1].month]>>
        Income(t) == t[3] > 0
        Spending(t) == t[3] < 0
        Plain(t) == t[3]
        Negated(t) == 0 - t[3]
    IN /\ DOMAIN summary.monthly_totals_income = KeysOf(transactions, Income, Month)
       /\ DOMAIN summary.monthly_totals_spending = KeysOf(transactions, Spending, Month)
       /\ DOMAIN summary.summary_income = KeysOf(transactions, Income, Month)
       /\ DOMAIN summary.summary_spending = KeysOf(transactions, Spending, Month)
       /\ \A m \in DOMAIN summary.monthly_totals_income :
            /\ summary.monthly_totals_income[m] =
                 SumOver(transactions, LAMBDA t : Income(t) /\ Month(t) = m, Plain)
            /\ DOMAIN summary.summary_income[m] =
                 KeysOf(transactions, LAMBDA t : Income(t) /\ Month(t) = m,
                        LAMBDA t : t[4])
            /\ \A c \in DOMAIN summary.summary_income[m] :
                 summary.summary_income[m][c] =
                   SumOver(transactions,
                           LAMBDA t : Income(t) /\ Month(t) = m /\ t[4] = c, Plain)
       /\ \A m \in DOMAIN summary.monthly_totals_spending :
            /\ summary.monthly_totals_spending[m] =
                 SumOver(transactions, LAMBDA t : Spending(t) /\ Month(t) = m, Negated)
            /\ DOMAIN summary.summary_spending[m] =
                 KeysOf(transactions, LAMBDA t : Spending(t) /\ Month(t) = m,
                        LAMBDA t : t[4])
            /\ \A c \in DOMAIN summary.summary_spending[m] :
                 summary.summary_spending[m][c] =
                   SumOver(transactions,
                           LAMBDA t : Spending(t) /\ Month(t) = m /\ t[4] = c, Negated)

\* generate_summary has run over an amount of 0 and an amount below 0
C4_Witness ==
  /\ Ran("load_csv")
  /\ \E i, j \in 1..Len(transactions) :
       transactions[i][3] = 0 /\ transactions[j][3] < 0

\* the rows of a file that the import reads: none of an unreadable file, and
\* none from the first row on that has a date and no description
RowsRead(file) ==
  IF file = Unreadable THEN <<>>
  ELSE LET stops == {i \in 1..Len(file) :
                       Len(file[i]) < 2 /\ file[i][1] \in DOMAIN DmyTable}
       IN IF stops = {} THEN file
          ELSE SubSeq(file, 1, (CHOOSE i \in stops : \A j \in stops : i <= j) - 1)

\* the row has a date and a value that parse
Parses(row) ==
  Len(row) >= 3 /\ row[1] \in DOMAIN DmyTable /\ row[3] \in DOMAIN FloatTable

\* the rows of the selected files that parse, in file order and row order
RECURSIVE ParsedRows(_)
ParsedRows(files) ==
  IF files = <<>> THEN <<>>
  ELSE SelectSeq(RowsRead(Head(files)), Parses) \o ParsedRows(Tail(files))

\* the (date, store, amount) instance that a parsed row describes
AsInstance(row) == <<DmyTable[row[1]], extract_store_name(row[2]), FloatTable[row[3]]>>

\* the pair of the parsed row is in the persisted registry
Listed(row) ==
  \E i \in 1..Len(Registry) :
    Registry[i] = <<StrftimeYmd(DmyTable[row[1]]), extract_store_name(row[2])>>

\* the instances of the parsed rows that the registry sends to the ignored
\* (to_ignored) or to the active partition, in file order and row order
Routed(files, to_ignored) ==
  LET rows == SelectSeq(ParsedRows(files), LAMBDA row : Listed(row) = to_ignored)
  IN [i \in 1..Len(rows) |-> AsInstance(rows[i])]

InstancesOf(txs) == [i \in 1..Len(txs) |-> Instance(txs[i])]

\* what follows the first n elements of a sequence
After(seq, n) == SubSeq(seq, n + 1, Len(seq))

\* C5: after a load in replace mode the active and the ignored partition
\* hold exactly the transactions parsed from the files of that load
C5_ReplaceKeepsOnlyThisLoad ==
  (Ran("load_csv") /\ last.arg[2]) =>
    /\ InstancesOf(transactions) = Routed(last.arg[1], FALSE)
    /\ InstancesOf(ignored_transactions) = Routed(last.arg[1], TRUE)

\* C6: a load in merge mode leaves the active and the ignored sequence of
\* before the load as prefixes of those after it, and what follows the
\* prefixes are the imported transactions in file order and row order
C6_MergeOnlyAppends ==
  [][(last'.op = "load_csv" /\ last'.exit \in {"summary", "no transactions"}
        /\ ~last'.arg[2]) =>
       /\ Len(transactions') >= Len(transactions)
       /\ Len(ignored_transactions') >= Len(ignored_transactions)
       /\ SubSeq(transactions', 1, Len(transactions)) = transactions
       /\ SubSeq(ignored_transactions', 1, Len(ignored_transactions))
            = ignored_transactions
       /\ InstancesOf(After(transactions', Len(transactions)))
            = Routed(last'.arg[1], FALSE)
       /\ InstancesOf(After(ignored_transactions', Len(ignored_transactions)))
            = Routed(last'.arg[1], TRUE)]_vars

\* a merge load has appended a transaction behind one of an earlier load
C6_Witness ==
  /\ Ran("load_csv")
  /\ ~last.arg[2]
  /\ Len(ParsedRows(last.arg[1])) = 1
  /\ Len(transactions) = 2 \/ Len(ignored_transactions) = 2

\* C7: a load routes by the registry read from the persisted ignore file:
\* every row that the import reads and that parses is appended once, to
\* ignored if its pair is in that registry and to active otherwise; none is
\* appended to both lists and none is left out (the import reads a file up
\* to the row, if any, that has a date and no description: there load_csv
\* abandons the file)
C7_ImportRoutesByRegistry ==
  [][(last'.op = "load_csv" /\ last'.exit \in {"summary", "no transactions"}) =>
       LET parsed == ParsedRows(last'.arg[1])
           kept == IF last'.arg[2] THEN 0 ELSE Len(transactions)
           to_active == After(transactions', kept)
           to_ignored == After(ignored_transactions', Len(ignored_transactions))
           Rows(x) == Cardinality({k \in 1..Len(parsed) : AsInstance(parsed[k]) = x})
       IN /\ Len(to_active) + Len(to_ignored) = Len(parsed)
          /\ \A k \in 1..Len(parsed) :
               LET x == AsInstance(parsed[k])
               IN IF Listed(parsed[k])
                  THEN Count(to_ignored, x) = Rows(x) /\ Count(to_active, x) = 0
                  ELSE Count(to_active, x) = Rows(x) /\ Count(to_ignored, x) = 0]_vars

\* one load has appended a row to the ignored and another row to the active
\* partition
C7_Witness ==
  /\ Ran("load_csv")
  /\ \E j, k \in 1..Len(ParsedRows(last.arg[1])) :
       Listed(ParsedRows(last.arg[1])[j]) /\ ~Listed(ParsedRows(last.arg[1])[k])
  /\ transactions # <<>>
  /\ ignored_transactions # <<>>

\* the transactions of txs whose formatted date and store are pair
Matches(txs, pair) ==
  {i \in 1..Len(txs) :
     <<Fmt4[txs[i][1].year], "-", Fmt2[txs[i][1].month], "-", Fmt2[txs[i][1].day]>>
       = pair[1] /\ txs[i][2] = pair[2]}

\* the least element of a set of positions
Least(I) == CHOOSE i \in I : \A j \in I : i <= j

\* a sequence without its element at position k
Without(seq, k) == SubSeq(seq, 1, k - 1) \o SubSeq(seq, k + 1, Len(seq))

\* the pair is in the dialog's registry and in the persisted one, after the step
ListedAfter(pair) ==
  /\ \E i \in 1..Len(ignore_list') : ignore_list'[i] = pair
  /\ \E i \in 1..Len(ignore_file') :
       <<Strip(ignore_file'[i][1]), Strip(ignore_file'[i][2])>> = pair

\* the pair is neither in the dialog's registry nor in the persisted one,
\* after the step
UnlistedAfter(pair) ==
  /\ \A i \in 1..Len(ignore_list') : ignore_list'[i] # pair
  /\ \A i \in 1..Len(ignore_file') :
       <<Strip(ignore_file'[i][1]), Strip(ignore_file'[i][2])>> # pair

\* C8: add_selectedd on a pair that an active transaction matches removes
\* the first such transaction from active, appends it to the end of ignored,
\* leaves every other transaction where it is, and the pair is then in the
\* registry and in the persisted ignore file
C8_AddMovesFirstMatch ==
  [][(last'.op = "add_selectedd" /\ Matches(transactions, last'.arg) # {}) =>
       LET k == Least(Matches(transactions, last'.arg))
       IN /\ transactions' = Without(transactions, k)
          /\ ignored_transactions' = Append(ignored_transactions, transactions[k])
          /\ ListedAfter(last'.arg)]_vars

\* C9: remove_selectedd on a pair that an ignored transaction matches
\* removes the first such transaction from ignored, appends it to the end of
\* active, leaves every other transaction where it is, and the pair is then
\* neither in the registry nor in the persisted ignore file
C9_RemoveMovesFirstMatch ==
  [][(last'.op = "remove_selectedd"
        /\ Matches(ignored_transactions, last'.arg) # {}) =>
       LET k == Least(Matches(ignored_transactions, last'.arg))
       IN /\ ignored_transactions' = Without(ignored_transactions, k)
          /\ transactions' = Append(transactions, ignored_transactions[k])
          /\ UnlistedAfter(last'.arg)]_vars

\* remove_selectedd has moved the first of two ignored transactions of one
\* pair to the end of a non-empty active list
C9_Witness ==
  /\ Ran("remove_selectedd")
  /\ Len(transactions) >= 1
  /\ Len(transactions) \in Matches(transactions, last.arg)
  /\ Matches(ignored_transactions, last.arg) # {}

\* C10: add_selectedd on a pair that no active transaction matches changes
\* neither partition, neither the dialog's registry nor the persisted ignore
\* file, and raises nothing
C10_AddWithoutMatchIsNoOp ==
  [][(last'.op = "add_selectedd" /\ Matches(transactions, last'.arg) = {}) =>
       /\ UNCHANGED <<transactions, ignored_transactions, ignore_list, ignore_file>>
       /\ last'.exit # "raised"]_vars

\* C11: remove_selectedd on a pair that no ignored transaction matches
\* changes neither partition, neither the dialog's registry nor the
\* persisted ignore file, and raises nothing
C11_RemoveWithoutMatchIsNoOp ==
  [][(last'.op = "remove_selectedd"
        /\ Matches(ignored_transactions, last'.arg) = {}) =>
       /\ UNCHANGED <<transactions, ignored_transactions, ignore_list, ignore_file>>
       /\ last'.exit \notin {"raised", "no match, raised"}]_vars

\* the transactions of a list, each with the number of times it occurs
BagOf(txs) ==
  [x \in {txs[i] : i \in 1..Len(txs)} |->
     Cardinality({i \in 1..Len(txs) : txs[i] = x})]

\* C12: when add_selectedd ran on the pair of an active transaction and
\* remove_selectedd on the same pair is the next change of the lists, the
\* active list holds the transactions it held before the two calls, the
\* ignored list is as it was before them, and the pair is not in the registry
C12_AddThenRemoveRestores ==
  [][(/\ last'.op = "remove_selectedd"
      /\ before.arg = last'.arg
      /\ Matches(before.transactions, last'.arg) # {}) =>
       /\ BagOf(transactions') = BagOf(before.transactions)
       /\ ignored_transactions' = before.ignored_transactions
       /\ UnlistedAfter(last'.arg)]_vars

\* C13: after edit_category(old_cat, new_cat) with a new name that differs
\* from the old one by more than the case of its letters, no active
\* transaction has a category equal to old_cat without regard to case, and no
\* store of self.categories is mapped to one
C13_RenameLeavesNoOld ==
  (Ran("edit_category") /\ Lower(last.arg[2]) # Lower(last.arg[1])) =>
    /\ \A i \in 1..Len(transactions) :
         Lower(transactions[i][4]) # Lower(last.arg[1])
    /\ \A i \in 1..Len(categories) :
         Lower(categories[i][2]) # Lower(last.arg[1])

\* food is renamed to bills while a transaction and a store carry Food
C13_Witness ==
  /\ Ran("edit_category")
  /\ last.arg = <<"food", "bills">>
  /\ Len(transactions) >= 2
  /\ \A i \in 1..Len(transactions) : transactions[i][4] = "bills"
  /\ \A i \in 1..Len(categories) : categories[i][2] = "bills"
  /\ \E i \in 1..Len(correction_tree) : correction_tree[i][4] = "Food"

\* C13 as stated: the same after edit_category(old_cat, new_cat) with any
\* new name different from the old one
C13_RenameAnyNewLeavesNoOld ==
  Ran("edit_category") =>
    /\ \A i \in 1..Len(transactions) :
         Lower(transactions[i][4]) # Lower(last.arg[1])
    /\ \A i \in 1..Len(categories) :
         Lower(categories[i][2]) # Lower(last.arg[1])

\* C14: after edit_category(old_cat, new_cat) with a new name that differs
\* from the old one by more than case, no ignored transaction carries a
\* category equal to old_cat without regard to case either
C14_RenameReachesIgnored ==
  (Ran("edit_category") /\ Lower(last.arg[2]) # Lower(last.arg[1])) =>
    \A i \in 1..Len(ignored_transactions) :
      Lower(ignored_transactions[i][4]) # Lower(last.arg[1])

\* C15: a handler that ends without an error leaves the summary that
\* generate_summary computes from the active list, and a handler that raises
\* leaves the summary as it was
C15_HandlersAreAtomic ==
  [][(last'.exit \notin {"askopenfilenames", "no files"}) =>
       IF last'.exit \in {"raised", "no match, raised"}
       THEN summary' = summary
       ELSE summary' = generate_summary(transactions')]_vars

\* C16: correct_transaction for this record only gives the transaction at
\* the index of the focused row the new category; that transaction keeps its
\* date, store, amount and position, and every other active transaction,
\* the ignored list and self.categories are unchanged
C16_CorrectOneChangesOne ==
  [][(last'.op = "correct_transaction" /\ ~last'.arg[3]) =>
       /\ Len(transactions') = Len(transactions)
       /\ \A i \in 1..Len(transactions) :
            transactions'[i] =
              IF i = last'.arg[1]
              THEN <<transactions[i][1], transactions[i][2], transactions[i][3],
                     last'.arg[2]>>
              ELSE transactions[i]
       /\ UNCHANGED <<ignored_transactions, categories, categories_file>>]_vars

\* one of two transactions of a store has been given a new category
C16_Witness ==
  /\ Ran("correct_transaction")
  /\ ~last.arg[3]
  /\ last.exit = "refreshed"
  /\ transactions[last.arg[1]][4] = last.arg[2]
  /\ \E j \in 1..Len(transactions) :
       /\ j # last.arg[1]
       /\ transactions[j][2] = transactions[last.arg[1]][2]
       /\ transactions[j][4] # last.arg[2]

\* C17: correct_transaction for all transactions of the store gives every
\* active transaction of the store of the focused row the new category, in
\* place, sets self.categories[store] to it, and leaves the active
\* transactions of every other store as they were
C17_CorrectAllChangesStore ==
  [][(last'.op = "correct_transaction" /\ last'.arg[3]) =>
       /\ Len(transactions') = Len(transactions)
       /\ \A i \in 1..Len(transactions) :
            transactions'[i] =
              IF transactions[i][2] = correction_tree[last'.arg[1]][2]
              THEN <<transactions[i][1], transactions[i][2], transactions[i][3],
                     last'.arg[2]>>
              ELSE transactions[i]
       /\ DictGet(categories', correction_tree[last'.arg[1]][2], "") = last'.arg[2]]_vars

\* both transactions of a store have been given a new category that the
\* store did not have in self.categories
C17_Witness ==
  /\ Ran("correct_transaction")
  /\ last.arg[3]
  /\ Len(transactions) >= 2
  /\ \A i \in 1..Len(transactions) :
       /\ transactions[i][2] = transactions[1][2]
       /\ transactions[i][4] = last.arg[2]
  /\ DictGet(categories, transactions[1][2], "") = last.arg[2]
  /\ DictGet(load_categories(categories_file), transactions[1][2], "") # last.arg[2]

\* the transactions of both lists
Held(txs, igs) ==
  {txs[i] : i \in 1..Len(txs)} \cup {igs[i] : i \in 1..Len(igs)}

\* C18: the store of every transaction of either list is a key of
\* self.categories; a transaction whose store was not a key before the load
\* has the category "None", and its store is mapped to "None" in
\* self.categories and in categories.csv
C18_StoresAreKeys ==
  [][\A t \in Held(transactions', ignored_transactions') :
       /\ DictHas(categories', t[2])
       /\ ~DictHas(categories, t[2]) =>
            /\ t[4] = "None"
            /\ DictGet(categories', t[2], "") = "None"
            /\ DictGet(load_categories(categories_file'), t[2], "") = "None"]_vars

\* a load has met store b for the first time
C18_Witness ==
  /\ Ran("load_csv")
  /\ \E i \in 1..Len(transactions) :
       /\ transactions[i][2] = <<"b">>
       /\ transactions[i][4] = "None"
  /\ DictGet(categories, <<"b">>, "") = "None"
  /\ DictGet(load_categories(categories_file), <<"b">>, "") = "None"

\* C19: after add_category(store, category) the store is mapped to the
\* category, categories.csv read back gives self.categories, and the same
\* call once more would leave self.categories and categories.csv as they are
C19_AssignPersists ==
  Ran("add_category") =>
    /\ DictGet(categories, last.arg[1], "") = last.arg[2]
    /\ load_categories(categories_file) = categories
    /\ DictSet(categories, last.arg[1], last.arg[2]) = categories
    /\ save_categories(DictSet(categories, last.arg[1], last.arg[2])) = categories_file

\* store b has been assigned after a correction for all transactions of
\* store a changed self.categories without a save
C19_Witness ==
  /\ Ran("add_category")
  /\ last.arg = <<<<"b">>, "bills">>
  /\ DictGet(categories, <<"a">>, "") = "Food"
  /\ categories_file = <<<<<<"a">>, "Food">>, <<<<"b">>, "bills">>>>

\* the date of the row, or the value it has, does not parse
FailsToParse(row) ==
  row[1] \notin DOMAIN DmyTable \/ (Len(row) >= 3 /\ row[3] \notin DOMAIN FloatTable)

\* the selected files without the rows that fail to parse
Parseable(files) ==
  [i \in 1..Len(files) |->
     IF files[i] = Unreadable THEN files[i]
     ELSE SelectSeq(files[i], LAMBDA row : ~FailsToParse(row))]

\* C20: a load leaves both lists, self.categories and categories.csv as the
\* load of the same files without their rows that fail to parse leaves them:
\* such a row adds nothing and does not keep the rows after it from being read
C20_UnparsedRowsAreSkipped ==
  [][(last'.op = "load_csv" /\ last'.exit \in {"summary", "no transactions"}) =>
       LET start == [active |-> IF last'.arg[2] THEN <<>> ELSE transactions,
                     ignored |-> ignored_transactions,
                     categories |-> categories,
                     categories_file |-> categories_file,
                     writable |-> writable,
                     raised |-> FALSE]
           end == ImportFiles(start, Parseable(last'.arg[1]), 1, Registry)
       IN /\ transactions' = end.active
          /\ ignored_transactions' = end.ignored
          /\ categories' = end.categories
          /\ categories_file' = end.categories_file]_vars

\* a file had a value that does not parse, for a store that is no key, in
\* its first row and a row that parses in its second, whose transaction is
\* the last of the active list
C20_Witness ==
  /\ Ran("load_csv")
  /\ \E i \in 1..Len(last.arg[1]) :
       LET file == last.arg[1][i]
       IN /\ file # Unreadable
          /\ Len(file) = 2
          /\ Len(file[1]) >= 3
          /\ file[1][1] \in DOMAIN DmyTable
          /\ file[1][3] \notin DOMAIN FloatTable
          /\ ~DictHas(categories, extract_store_name(file[1][2]))
          /\ Parses(file[2])
          /\ transactions # <<>>
          /\ Instance(transactions[Len(transactions)]) = AsInstance(file[2])

\* the file cannot be read, or reading it raises at one of its rows
Fails(file) == RowsRead(file) # file

\* C21: a load leaves both lists, self.categories and categories.csv as the
\* load of the same selection leaves them in which every file that fails is
\* cut down to the rows read before its failure: the files after a failing
\* file are read and their rows imported
C21_FailureAbandonsOneFile ==
  [][(last'.op = "load_csv" /\ last'.exit \in {"summary", "no transactions"}) =>
       LET start == [active |-> IF last'.arg[2] THEN <<>> ELSE transactions,
                     ignored |-> ignored_transactions,
                     categories |-> categories,
                     categories_file |-> categories_file,
                     writable |-> writable,
                     raised |-> FALSE]
           read == [i \in 1..Len(last'.arg[1]) |-> RowsRead(last'.arg[1][i])]
           end == ImportFiles(start, read, 1, Registry)
       IN /\ transactions' = end.active
          /\ ignored_transactions' = end.ignored
          /\ categories' = end.categories
          /\ categories_file' = end.categories_file]_vars

\* the first of two files failed and the row of the second is the last
\* transaction of the active list
C21_Witness ==
  /\ Ran("load_csv")
  /\ Len(last.arg[1]) = 2
  /\ Fails(last.arg[1][1])
  /\ last.arg[1][2] # Unreadable
  /\ Len(last.arg[1][2]) = 1
  /\ Parses(last.arg[1][2][1])
  /\ transactions # <<>>
  /\ Instance(transactions[Len(transactions)]) = AsInstance(last.arg[1][2][1])

\* C30: when reading a file raises at one of its rows, every row of the file
\* before that one that parses has its transaction in the active or in the
\* ignored list after the load, and its store is a key of self.categories
C30_RowsBeforeFailureStay ==
  [][(last'.op = "load_csv" /\ last'.exit \in {"summary", "no transactions"}) =>
       \A i \in 1..Len(last'.arg[1]) :
         LET file == last'.arg[1][i]
         IN (file # Unreadable /\ Fails(file)) =>
              \A k \in 1..Len(RowsRead(file)) :
                Parses(file[k]) =>
                  /\ \E t \in Held(transactions', ignored_transactions') :
                       Instance(t) = AsInstance(file[k])
                  /\ DictHas(categories', extract_store_name(file[k][2]))]_vars

\* a file gave a transaction of store b, not a key before, and then raised
C30_Witness ==
  /\ Ran("load_csv")
  /\ \E i \in 1..Len(last.arg[1]) :
       LET file == last.arg[1][i]
       IN /\ file # Unreadable
          /\ Len(file) = 2
          /\ Len(RowsRead(file)) = 1
          /\ Parses(file[1])
          /\ extract_store_name(file[1][2]) = <<"b">>
  /\ Len(transactions) = 1
  /\ transactions[1][2] = <<"b">>
  /\ categories_file = <<<<<<"a">>, "food">>, <<<<"b">>, "None">>>>

\* C22: while the files cannot be written, add_selectedd and remove_selectedd
\* still move the first matching transaction and enter the pair in, or take
\* it from, the dialog's registry, and a load still leaves both lists and
\* self.categories as it does when the files can be written
C22_FailedWriteKeepsMemoryValid ==
  [][~writable =>
       /\ (last'.op = "add_selectedd" /\ last'.exit # "listed"
             /\ Matches(transactions, last'.arg) # {}) =>
            LET k == Least(Matches(transactions, last'.arg))
            IN /\ transactions' = Without(transactions, k)
               /\ ignored_transactions' = Append(ignored_transactions, transactions[k])
               /\ In(last'.arg, ignore_list')
       /\ (last'.op = "remove_selectedd"
             /\ Matches(ignored_transactions, last'.arg) # {}) =>
            LET k == Least(Matches(ignored_transactions, last'.arg))
            IN /\ ignored_transactions' = Without(ignored_transactions, k)
               /\ transactions' = Append(transactions, ignored_transactions[k])
               /\ ~In(last'.arg, ignore_list')
       /\ (last'.op = "load_csv" /\ last'.exit \in {"summary", "no transactions"}) =>
            LET start == [active |-> IF last'.arg[2] THEN <<>> ELSE transactions,
                          ignored |-> ignored_transactions,
                          categories |-> categories,
                          categories_file |-> categories_file,
                          writable |-> TRUE,
                          raised |-> FALSE]
                end == ImportFiles(start, last'.arg[1], 1, Registry)
            IN /\ transactions' = end.active
               /\ ignored_transactions' = end.ignored
               /\ categories' = end.categories]_vars

\* the sum of f over the months of M
SumMonths(M, f(_)) ==
  LET RECURSIVE Sum(_)
      Sum(S) == IF S = {} THEN 0
                ELSE LET m == CHOOSE x \in S : TRUE IN f(m) + Sum(S \ {m})
  IN Sum(M)

\* C23: after a year button the frames show, as income and spending in
\* total and for each category, the sums of the stored monthly aggregates
\* over exactly the months whose key starts with that year, and after the
\* Total button the sums over every stored month; when the stored aggregates
\* are those of the active transactions, these are the sums over the active
\* transactions dated in that year, respectively over all of them
C23_DetailsAreSums ==
  LET Plain(t) == t[3]
      Negated(t) == 0 - t[3]
      Shown(Of(_)) ==
        /\ displayed.total_income =
             SumMonths(Of(summary.monthly_totals_income),
                       LAMBDA m : summary.monthly_totals_income[m])
        /\ displayed.total_spending =
             SumMonths(Of(summary.monthly_totals_spending),
                       LAMBDA m : summary.monthly_totals_spending[m])
        /\ DOMAIN displayed.income =
             UNION {DOMAIN summary.summary_income[m] : m \in Of(summary.summary_income)}
        /\ DOMAIN displayed.spending =
             UNION {DOMAIN summary.summary_spending[m] :
                      m \in Of(summary.summary_spending)}
        /\ \A c \in DOMAIN displayed.income :
             displayed.income[c] =
               SumMonths({m \in Of(summary.summary_income) :
                            c \in DOMAIN summary.summary_income[m]},
                         LAMBDA m : summary.summary_income[m][c])
        /\ \A c \in DOMAIN displayed.spending :
             displayed.spending[c] =
               SumMonths({m \in Of(summary.summary_spending) :
                            c \in DOMAIN summary.summary_spending[m]},
                         LAMBDA m : summary.summary_spending[m][c])
      Fresh(Dated(_)) ==
        summary = generate_summary(transactions) =>
          /\ displayed.total_income =
               SumOver(transactions, LAMBDA t : Dated(t) /\ t[3] > 0, Plain)
          /\ displayed.total_spending =
               SumOver(transactions, LAMBDA t : Dated(t) /\ t[3] < 0, Negated)
          /\ DOMAIN displayed.income =
               KeysOf(transactions, LAMBDA t : Dated(t) /\ t[3] > 0, LAMBDA t : t[4])
          /\ DOMAIN displayed.spending =
               KeysOf(transactions, LAMBDA t : Dated(t) /\ t[3] < 0, LAMBDA t : t[4])
          /\ \A c \in DOMAIN displayed.income :
               displayed.income[c] =
                 SumOver(transactions,
                         LAMBDA t : Dated(t) /\ t[3] > 0 /\ t[4] = c, Plain)
          /\ \A c \in DOMAIN displayed.spending :
               displayed.spending[c] =
                 SumOver(transactions,
                         LAMBDA t : Dated(t) /\ t[3] < 0 /\ t[4] = c, Negated)
  IN /\ Ran("show_yearly_details") =>
          /\ Shown(LAMBDA by_month :
                     {m \in DOMAIN by_month : StartsWith(m, <<last.arg>>)})
          /\ Fresh(LAMBDA t : Fmt4[t[1].year] = last.arg)
     /\ Ran("show_total_details") =>
          /\ Shown(LAMBDA by_month : DOMAIN by_month)
          /\ Fresh(LAMBDA t : TRUE)

\* a year button is pressed with fresh aggregates of transactions of two
\* years, both spending, in two categories
C23_Witness ==
  /\ Ran("show_yearly_details")
  /\ summary = generate_summary(transactions)
  /\ Len(transactions) = 2
  /\ transactions[1][1].year # transactions[2][1].year
  /\ transactions[1][3] < 0
  /\ transactions[2][3] < 0
  /\ transactions[1][4] # transactions[2][4]

\* the Total button is pressed while the stored aggregates are not those of
\* the active transactions
C23_StaleWitness ==
  /\ Ran("show_total_details")
  /\ summary # generate_summary(transactions)
  /\ displayed.total_spending > 0

\* C24: when categories.csv is read, written back and read again, the second
\* read gives the mapping of the first, and when ignore.csv is read, written
\* back and read again, the second read gives the sequence of (date, store)
\* pairs of the first
C24_RoundTrip ==
  /\ Ran("save_categories") =>
       load_categories(categories_file) = load_categories(last.arg)
  /\ Ran("save_ignore_list") =>
       load_ignore_list(ignore_file) = load_ignore_list(last.arg)

\* ignore.csv held a field with blanks around it and a row of one field: it
\* was written back as another file, with a pair twice
C24_Witness ==
  /\ Ran("save_ignore_list")
  /\ ignore_file # last.arg
  /\ Len(ignore_file) = 2
  /\ ignore_file[1] = ignore_file[2]
  /\ \E i \in 1..Len(last.arg) : Len(last.arg[i]) >= 2 /\ Strip(last.arg[i][2]) # last.arg[i][2]

\* categories.csv held a store twice: it was written back with one row
C24_MappingWitness ==
  /\ Ran("save_categories")
  /\ Len(last.arg) = 2
  /\ Len(categories_file) = 1
  /\ categories_file[1] = <<<<"a">>, "Food">>

\* the text between the first comma of d and its second comma, or its end,
\* and all of d when it has no comma
SecondField(d) ==
  LET commas == {i \in 1..Len(d) : d[i] = ","}
      Lowest(S) == CHOOSE i \in S : \A j \in S : i <= j
  IN IF commas = {} THEN d
     ELSE LET first == Lowest(commas)
              later == {i \in commas : i > first}
              stop == IF later = {} THEN Len(d) + 1 ELSE Lowest(later)
          IN SubSeq(d, first + 1, stop - 1)

\* s without the blanks at its two ends
Trimmed(s) ==
  LET inner == {i \in 1..Len(s) : s[i] # " "}
  IN IF inner = {} THEN <<>>
     ELSE SubSeq(s, CHOOSE i \in inner : \A j \in inner : i <= j,
                    CHOOSE i \in inner : \A j \in inner : i >= j)

\* C25: the load of one row takes as the store of its transaction the second
\* comma-separated field of the description without the blanks around it
\* when the description has a comma, whatever follows a second comma being
\* dropped, and the whole description without the blanks around it when it
\* has none; no description makes the load fail: the row is imported and the
\* store entered in self.categories
C25_StoreIsSecondField ==
  [][(last'.op = "load_csv" /\ last'.exit \in {"summary", "no transactions"}
      /\ Len(last'.arg[1]) = 1 /\ Len(last'.arg[1][1]) = 1) =>
       LET row == last'.arg[1][1][1]
           store == Trimmed(SecondField(row[2]))
           date == StrptimeDmy(row[1])
           t == <<date, store, Float(row[3]), DictGet(categories, store, "None")>>
           kept == IF last'.arg[2] THEN <<>> ELSE transactions
       IN /\ DictHas(categories', store)
          /\ IF In(<<StrftimeYmd(date), store>>, Registry)
             THEN /\ ignored_transactions' = Append(ignored_transactions, t)
                  /\ transactions' = kept
             ELSE /\ transactions' = Append(kept, t)
                  /\ ignored_transactions' = ignored_transactions]_vars

\* a description of four parts with blanks around the second has been loaded
C25_Witness ==
  /\ Ran("load_csv")
  /\ Len(last.arg[1]) = 1
  /\ last.arg[1][1][1][2] = <<" ", "p", ",", "b", " ", ",", "x", ",", "a">>
  /\ transactions # <<>>
  /\ transactions[Len(transactions)][2] = <<"b">>

\* the empty description has been loaded: the store is the empty text
C25_EmptyWitness ==
  /\ Ran("load_csv")
  /\ Len(last.arg[1]) = 1
  /\ last.arg[1][1][1][2] = <<>>
  /\ transactions # <<>>
  /\ transactions[Len(transactions)][2] = <<>>

\* C26: load_settings called without a settings.csv returns, and has created
\* the file
C26_MissingSettingsAreCreated ==
  (Ran("load_settings") /\ ~last.arg.exists) =>
    /\ last.exit = "returned"
    /\ settings_file.exists
    /\ settings = DefaultSettings

\* load_settings has read a settings.csv that sets the theme after its
\* header
C26_LoadedWitness ==
  /\ Ran("load_settings")
  /\ last.exit = "returned"
  /\ settings["Theme"] = "Dark"

\* C27: whenever a row of the correction tree can be corrected, its position
\* is an index of the active list and the transaction there has the date,
\* the store and the amount of the row, and correct_transaction never ends
\* with an IndexError
C27_CorrectionTargetsSelected ==
  /\ (dialog # "open" /\ ~Asking) =>
       \A i \in 1..Len(correction_tree) :
         /\ i <= Len(transactions)
         /\ transactions[i][1] = correction_tree[i][1]
         /\ transactions[i][2] = correction_tree[i][2]
         /\ transactions[i][3] = correction_tree[i][3]
  /\ Ran("correct_transaction") => last.exit # "raised"

\* correct_transaction has raised on a row that a load has left in the tree
C27_RaisedWitness ==
  /\ Ran("correct_transaction")
  /\ last.exit = "raised"
  /\ transactions = <<>>
  /\ correction_tree # <<>>

\* C28: a handler that changes self.categories and returns leaves
\* categories.csv with the mapping of self.categories
C28_DirectoryIsPersisted ==
  [][(categories' # categories /\ last'.exit # "raised") =>
       load_categories(categories_file') = categories']_vars

\* a correction for all transactions of store b has returned: b is bills in
\* self.categories and still None in categories.csv
C28_UnsavedWitness ==
  /\ Ran("correct_transaction")
  /\ last.exit = "refreshed"
  /\ DictGet(categories, <<"b">>, "") = "bills"
  /\ DictGet(load_categories(categories_file), <<"b">>, "") = "None"

\* C29: add_category(store, category) assigns the category to the store in
\* self.categories and rewrites categories.csv, and changes nothing else:
\* both lists, with the category of every transaction in them, and the four
\* aggregate mappings are as before, so that a transaction of the store
\* keeps the category it had
C29_AssignChangesDirectoryOnly ==
  [][last'.op = "add_category" =>
       /\ categories' = DictSet(categories, last'.arg[1], last'.arg[2])
       /\ categories_file' = save_categories(categories')
       /\ UNCHANGED <<transactions, ignored_transactions, summary, ignore_file>>]_vars

\* a store has been assigned a category that an active transaction of the
\* store does not have
C29_Witness ==
  /\ Ran("add_category")
  /\ \E i \in 1..Len(transactions) :
       /\ transactions[i][2] = last.arg[1]
       /\ transactions[i][4] # last.arg[2]
  /\ DictGet(categories, last.arg[1], "") = last.arg[2]

====
